---- MODULE Spec2Model ----
(***************************************************************************)
(* A model of the curl operation objects of xrdcl-pelican                  *)
(* (src/src/CurlOps.cc): CurlOperation and its variants CurlStatOp,        *)
(* CurlOpenOp, CurlReadOp and CurlPgReadOp.                                *)
(*                                                                         *)
(* An operation is reactive: the worker (the driver) calls Setup, then the *)
(* transport (libcurl) calls HeaderCallback / WriteCallback /              *)
(* XferInfoCallback, and the worker ends a request with Redirect, Success  *)
(* or Fail.  Every method of the source is an operator on a "world" record *)
(* [op, curl, resp, buf]: the operation's fields, the options of the curl  *)
(* easy handle, the responses handed to the XrdCl response handler so far, *)
(* and the caller-owned read buffer.  An action is one call by the driver. *)
(***************************************************************************)
EXTENDS Integers, Sequences, FiniteSets, TLC

VARIABLES
    op,     \* the fields of the operation object (m_...)
    curl,   \* the options set on the curl easy handle
    resp,   \* sequence of the responses given to m_handler->HandleResponse
    buf,    \* the caller-owned buffer of a read (m_buffer points into it)
    now,    \* CLOCK_MONOTONIC, as a timespec [sec, nsec]
    env,    \* process configuration and the worker's answers (fixed)
    file,   \* the properties set on the caller's File: name -> value
    dcache, \* the (url, depth) pairs put into the director cache
    drv     \* the driver: phase of the transfer, last call and its result

vars == <<op, curl, resp, buf, now, env, file, dcache, drv>>

-----------------------------------------------------------------------------
(* Bounds of the model *)

\* largest requested read length (m_op.second)
MaxLen == 2
\* largest requested / server-reported offset
MaxOffset == 1
\* largest seconds value of the clock readings and timeouts tried
MaxSec == 1
\* largest requested length of a page read, a few pages
MaxPgLen == 5
\* number of sockets the broker hands out to one operation
MaxSockets == 2

(* Program constants *)

\* nanoseconds per second, Setup's normalisation of m_header_expiry
NsPerSec == 1000000000
\* default header timeout in seconds
DefaultHeaderTimeoutSec == 30

-----------------------------------------------------------------------------
(* Kinds of operation *)

StatKinds == {"stat", "open"}
ReadKinds == {"read", "pgread"}
Kinds == StatKinds \cup ReadKinds

(* Values *)

NoSocket == -1
Url0 == "pelican://origin/file"
Url1 == "https://cache/file"
Broker1 == "https://broker/reverse"
Mirror1 == "https://director/mirror"

Timespec(s, n) == [sec |-> s, nsec |-> n]

-----------------------------------------------------------------------------
(* The header parser (CurlUtil: HeaderParser).  Its source is not part of  *)
(* CurlOps.cc; it is modelled from its documented interface: line by line  *)
(* ingestion, a completion flag, and the decoded fields.                   *)

\* HeaderParser(): the empty header state
HeaderParser ==
    [status |-> 0, msg |-> "", done |-> FALSE, location |-> "",
     content_length |-> -1, offset |-> 0, multipart |-> FALSE,
     broker |-> "", mirror_url |-> "", mirror_depth |-> 0, x509 |-> FALSE]

\* a header line as the transport hands it over: kind t, text s, number n
Line(t, s, n) == [t |-> t, s |-> s, n |-> n]

StatusLines ==
    {Line("status", "OK", 200), Line("status", "Partial Content", 206),
     Line("status", "Temporary Redirect", 307),
     Line("status", "Not Found", 404), Line("status", "", 500)}

\* HeaderParser::Parse: the header state after one more line
ParseState(h, line) ==
    CASE line.t = "status" -> [h EXCEPT !.status = line.n, !.msg = line.s]
      [] line.t = "location" -> [h EXCEPT !.location = line.s]
      [] line.t = "content-length" -> [h EXCEPT !.content_length = line.n]
      [] line.t = "content-range" -> [h EXCEPT !.offset = line.n]
      [] line.t = "multipart" -> [h EXCEPT !.multipart = TRUE]
      [] line.t = "broker" -> [h EXCEPT !.broker = line.s]
      [] line.t = "mirror" -> [h EXCEPT !.mirror_url = line.s, !.mirror_depth = line.n]
      [] line.t = "x509" -> [h EXCEPT !.x509 = TRUE]
      [] line.t = "blank" -> [h EXCEPT !.done = TRUE]
      [] OTHER -> h

\* HeaderParser::Parse: false for a line it cannot parse
ParseOk(line) == line.t # "bad"

\* HTTPStatusIsError: 4xx and 5xx
HTTPStatusIsError(status) == status >= 400

\* HTTPStatusConvert: the (errCode, errNum) pair an HTTP status maps to
HTTPStatusConvert(status) ==
    CASE status = 404 -> <<"errErrorResponse", "kXR_NotFound">>
      [] status = 500 -> <<"errErrorResponse", "kXR_ServerError">>
      [] OTHER -> <<"errErrorResponse", "kXR_InvalidRequest">>

-----------------------------------------------------------------------------
(* Responses handed to the XrdCl response handler *)

\* XRootDStatus(stError, errCode, errNum, msg) with a null object; at is the
\* read offset CurlReadOp::Fail appends to a non-empty message (-1: none)
FailResponse(errCode, errNum, msg, at) ==
    [type |-> "fail", errCode |-> errCode, errNum |-> errNum, msg |-> msg,
     at |-> at, offset |-> 0, length |-> 0, size |-> 0, isdir |-> FALSE,
     cksums |-> <<>>]

\* XRootDStatus() with a ChunkInfo / PageInfo / StatInfo object
OkResponse(type, offset, length, size, isdir) ==
    [type |-> type, errCode |-> "", errNum |-> "", msg |-> "",
     at |-> -1, offset |-> offset, length |-> length, size |-> size,
     isdir |-> isdir, cksums |-> <<>>]

\* SetDone(): mark the operation done
SetDone(w) == [w EXCEPT !.op.m_done = TRUE]

\* m_handler->HandleResponse(status, obj)
HandleResponse(w, r) == [w EXCEPT !.resp = Append(@, r)]

\* m_handler = nullptr
ClearHandler(w) == [w EXCEPT !.op.m_handler = FALSE]

\* a method's result: the world it leaves and the value it returns
Ret(w, rv) == [w |-> w, rv |-> rv]

-----------------------------------------------------------------------------
(* Fail *)

\* CurlOperation::Fail without "m_handler = nullptr"
CurlOperation_Fail_KeepsHandler(w, errCode, errNum, msg) ==
    LET w1 == SetDone(w)
    IN  IF ~w1.op.m_handler THEN w1
        ELSE HandleResponse(w1, FailResponse(errCode, errNum, msg, -1))

\* CurlOperation::Fail
CurlOperation_Fail(w, errCode, errNum, msg) ==
    LET w1 == SetDone(w)
    IN  IF ~w1.op.m_handler THEN w1
        ELSE ClearHandler(HandleResponse(w1, FailResponse(errCode, errNum, msg, -1)))

\* CurlReadOp::Fail
CurlReadOp_Fail(w, errCode, errNum, msg) ==
    LET w1 == SetDone(w)
        at == IF msg # "" THEN w.op.m_op.first ELSE -1
    IN  IF ~w1.op.m_handler THEN w1
        ELSE ClearHandler(HandleResponse(w1, FailResponse(errCode, errNum, msg, at)))

\* Fail as the operation's variant defines it
Fail(w, errCode, errNum, msg) ==
    IF w.op.kind \in ReadKinds
    THEN CurlReadOp_Fail(w, errCode, errNum, msg)
    ELSE CurlOperation_Fail(w, errCode, errNum, msg)

-----------------------------------------------------------------------------
(* CurlOperation: headers, redirect, timeout, setup *)

\* CurlOperation::Header without the check of the status code
Header_IgnoresStatus(w, line) ==
    Ret([w EXCEPT !.op.m_headers = ParseState(@, line)], ParseOk(line))

\* CurlOperation::Header
Header(w, line) ==
    LET result == ParseOk(line)
        w1 == [w EXCEPT !.op.m_headers = ParseState(@, line)]
        h == w1.op.m_headers
    IN  IF h.done /\ HTTPStatusIsError(h.status)
        THEN Ret(Fail(w1, HTTPStatusConvert(h.status)[1],
                      HTTPStatusConvert(h.status)[2], h.msg), result)
        ELSE Ret(w1, result)

\* CurlOperation::HeaderCallback: the number of bytes taken, 0 to abort
HeaderCallback(w, line, size) ==
    LET r == Header([w EXCEPT !.op.m_received_header = TRUE], line)
    IN  Ret(r.w, IF r.rv THEN size ELSE 0)

\* CurlOperation::IsRedirect
IsRedirect(o) == o.m_headers.status >= 300 /\ o.m_headers.status < 400

\* the X509 part of Redirect setting the flag and leaving the handle alone
RedirectX509_FlagOnly(w) ==
    IF ~w.op.m_headers.x509 THEN w ELSE [w EXCEPT !.op.m_x509_auth = TRUE]

\* the part of CurlOperation::Redirect that switches to client X509 auth
RedirectX509(w) ==
    IF ~w.op.m_headers.x509 THEN w
    ELSE LET w1 == [w EXCEPT !.op.m_x509_auth = TRUE]
             w2 == IF env.cert # "" THEN [w1 EXCEPT !.curl.sslcert = env.cert] ELSE w1
         IN  IF env.key # "" THEN [w2 EXCEPT !.curl.sslkey = env.key] ELSE w2

\* the part of CurlOperation::Redirect that starts the broker request;
\* startOk is whether BrokerRequest::StartRequest succeeds
RedirectBroker(w, broker, startOk) ==
    IF broker = "" THEN Ret(w, TRUE)
    ELSE LET w1 == [w EXCEPT !.op.m_broker_url = broker, !.op.m_broker = "created"]
         IN  IF ~startOk
             THEN Ret(Fail(w1, "errInternal", "1", "Failed to start a read request for broker"), FALSE)
             ELSE Ret([w1 EXCEPT !.op.m_broker = "started",
                                 !.curl.opensocketfunction = "OpenSocketCallback",
                                 !.curl.opensocketdata = TRUE,
                                 !.curl.sockoptfunction = "SockOptCallback",
                                 !.curl.sockoptdata = TRUE], TRUE)

\* CurlOperation::Redirect returning false for a missing location without Fail
CurlOperation_Redirect_NoFail(w, startOk) ==
    LET broker == w.op.m_headers.broker
        location == w.op.m_headers.location
        w1 == [w EXCEPT !.op.m_broker = "null",
                        !.op.m_broker_reverse_socket = NoSocket]
    IN  IF location = "" THEN Ret(w1, FALSE)
        ELSE LET w2 == [w1 EXCEPT !.curl.url = location,
                                  !.op.m_mirror_url = w.op.m_headers.mirror_url,
                                  !.op.m_mirror_depth = w.op.m_headers.mirror_depth]
                 w3 == RedirectX509(w2)
                 w4 == [w3 EXCEPT !.op.m_headers = HeaderParser]
             IN  RedirectBroker(w4, broker, startOk)

\* CurlOperation::Redirect
CurlOperation_Redirect(w, startOk) ==
    LET broker == w.op.m_headers.broker
        location == w.op.m_headers.location
        w1 == [w EXCEPT !.op.m_broker = "null",
                        !.op.m_broker_reverse_socket = NoSocket]
    IN  IF location = ""
        THEN Ret(Fail(w1, "errErrorResponse", "kXR_ServerError",
                      "Server returned redirect without updated location"), FALSE)
        ELSE LET w2 == [w1 EXCEPT !.curl.url = location,
                                  !.op.m_mirror_url = w.op.m_headers.mirror_url,
                                  !.op.m_mirror_depth = w.op.m_headers.mirror_depth]
                 w3 == RedirectX509(w2)
                 w4 == [w3 EXCEPT !.op.m_headers = HeaderParser]
             IN  RedirectBroker(w4, broker, startOk)

\* CurlOperation::StartBroker; startOk is whether BrokerRequest::StartRequest
\* succeeds.  m_broker->StartRequest on a null m_broker is undefined: the
\* process dies there, or the call comes back with either answer
StartBroker(w, startOk) ==
    LET failed == Ret(Fail(w, "errInternal", "1",
                           "Failed to start a read request for broker"), FALSE)
    IN  IF w.op.m_broker_url = ""
        THEN Ret(Fail(w, "errInternal", "1", "Broker URL is not set"), FALSE)
        ELSE IF w.op.m_broker = "null"
        THEN IF w.ub = "crash" THEN Ret([w EXCEPT !.fault = TRUE], FALSE)
             ELSE IF startOk THEN Ret(w, TRUE) ELSE failed
        ELSE IF ~startOk THEN failed
        ELSE Ret([w EXCEPT !.op.m_broker = "started"], TRUE)

\* CurlOperation::HeaderTimeoutExpired (clock_gettime on CLOCK_MONOTONIC
\* does not fail): the result, and m_error set when it is true
HeaderTimeoutExpired(w) ==
    IF w.op.m_received_header THEN Ret(w, FALSE)
    ELSE LET exp == w.op.m_header_expiry
             res == \/ now.sec > exp.sec
                    \/ (now.sec = exp.sec /\ now.nsec > exp.nsec)
         IN  IF res THEN Ret([w EXCEPT !.op.m_error = "ErrHeaderTimeout"], TRUE)
             ELSE Ret(w, FALSE)

\* CurlOperation::XferInfoCallback: 1 tells the transport to abort
XferInfoCallback(w) ==
    LET r == HeaderTimeoutExpired(w)
    IN  Ret(r.w, IF r.rv THEN 1 ELSE 0)

\* the loop of CurlOperation::Setup that carries nanoseconds into seconds
RECURSIVE CarryNsec(_)
CarryNsec(ts) ==
    IF ts.nsec > NsPerSec
    THEN CarryNsec(Timespec(ts.sec + 1, ts.nsec - NsPerSec))
    ELSE ts

\* the part of CurlOperation::Setup that computes m_header_expiry
SetupExpiry(w) ==
    LET t == IF w.op.m_header_timeout = Timespec(0, 0)
             THEN Timespec(DefaultHeaderTimeoutSec, 0)
             ELSE w.op.m_header_timeout
    IN  [w EXCEPT !.op.m_header_timeout = t,
                  !.op.m_header_expiry =
                      CarryNsec(Timespec(now.sec + t.sec, now.nsec + t.nsec))]

\* the part of CurlOperation::Setup that binds the handle and its callbacks
SetupHandle(w) ==
    [w EXCEPT !.op.m_curl = TRUE,
              !.curl.url = w.op.m_url,
              !.curl.headerfunction = "HeaderCallback",
              !.curl.headerdata = TRUE,
              !.curl.writefunction = "NullCallback",
              !.curl.writedata = FALSE,
              !.curl.xferinfofunction = "XferInfoCallback",
              !.curl.xferinfodata = TRUE,
              !.curl.noprogress = 0]

\* the part of CurlOperation::Setup that attaches the worker's certificate
SetupX509(w) ==
    IF w.op.m_x509_auth \/ env.worker_x509
    THEN [w EXCEPT !.curl.sslcert = env.worker_cert,
                   !.curl.sslkey = env.worker_key]
    ELSE w

\* the part of CurlOperation::Setup that prepares the broker request
SetupBroker(w) ==
    IF w.op.m_broker_url # ""
    THEN [w EXCEPT !.op.m_broker = "created",
                   !.curl.opensocketfunction = "OpenSocketCallback",
                   !.curl.opensocketdata = TRUE,
                   !.curl.sockoptfunction = "SockOptCallback",
                   !.curl.sockoptdata = TRUE]
    ELSE w

\* CurlOperation::Setup (the handle is not null)
CurlOperation_Setup(w) == SetupBroker(SetupX509(SetupHandle(SetupExpiry(w))))

\* CURL_SOCKET_BAD
CurlSocketBad == NoSocket

\* CurlOperation::OpenSocketCallback keeping the operation's copy
OpenSocketCallback_KeepsCopy(w) ==
    IF w.op.m_broker_reverse_socket = NoSocket THEN Ret(w, CurlSocketBad)
    ELSE Ret(w, w.op.m_broker_reverse_socket)

\* CurlOperation::OpenSocketCallback: the descriptor for the transport
OpenSocketCallback(w) ==
    LET fd == w.op.m_broker_reverse_socket
        w1 == [w EXCEPT !.op.m_broker_reverse_socket = NoSocket]
    IN  IF fd = NoSocket THEN Ret(w1, CurlSocketBad) ELSE Ret(w1, fd)

\* CurlOperation::WaitSocketCallback; finished is what FinishRequest returns,
\* a descriptor or -1
WaitSocketCallback(w, finished) ==
    LET fd == IF w.op.m_broker # "null" THEN finished ELSE NoSocket
    IN  Ret([w EXCEPT !.op.m_broker_reverse_socket = fd], fd)

\* CurlOperation::~CurlOperation: the descriptor it closes, -1 for none
Destructor(w) == Ret(w, w.op.m_broker_reverse_socket)

\* CurlOperation::ReleaseHandle
CurlOperation_ReleaseHandle(w) ==
    IF ~w.op.m_curl THEN w
    ELSE [w EXCEPT !.curl.sslcert = "", !.curl.sslkey = "", !.op.m_curl = FALSE]

\* the four socket options set to nullptr; no effect when m_curl is null
ClearSocketOptions(w) ==
    IF ~w.op.m_curl THEN w
    ELSE [w EXCEPT !.curl.opensocketfunction = "", !.curl.opensocketdata = FALSE,
                   !.curl.sockoptfunction = "", !.curl.sockoptdata = FALSE]

-----------------------------------------------------------------------------
(* The PROPFIND body.  A body arrives in chunks [len, data]; the buffered  *)
(* text is the sequence of chunks.  tinyxml2 parses the text into a tree   *)
(* of elements [name, text, kids]; a text parses when it is one whole      *)
(* document.                                                               *)

El(name, text, kids) == [name |-> name, text |-> text, kids |-> kids]

Chunk(len, data) == [len |-> len, data |-> data]

\* a prop element with the given children
PropOf(kids) ==
    El("D:multistatus", "", <<
        El("D:response", "", <<
            El("D:href", "/file", <<>>),
            El("D:propstat", "", << El("D:prop", "", kids) >>) >>) >>)

\* RootElement() of a document without an element: the null pointer
NoElement == El("", "", <<>>)

\* the children of a prop: a plain file of 1024 bytes, a collection without
\* and with a content length, a file without one
FileKids ==
    << El("lp1:resourcetype", "", <<>>), El("lp1:getcontentlength", "1024", <<>>) >>
DirKids == << El("D:resourcetype", "", << El("D:collection", "", <<>>) >>) >>
SizedDirKids == DirKids \o << El("D:getcontentlength", "4096", <<>>) >>
NoLengthKids == << El("D:resourcetype", "", <<>>), El("D:getcontentlength", "", <<>>) >>

\* the documents a server may send, by name
XmlDocument(data) ==
    CASE data = "file1024" -> PropOf(FileKids)
      [] data = "dir" -> PropOf(DirKids)
      [] data = "dirsized" -> PropOf(SizedDirKids)
      [] data = "nolength" -> PropOf(NoLengthKids)
      [] data = "noresponse" ->
            El("D:multistatus", "", << El("D:responsedescription", "x", <<>>) >>)
      [] data = "nopropstat" ->
            El("D:multistatus", "", <<
                El("D:response", "", << El("D:href", "/file", <<>>) >>) >>)
      [] data = "noprop" ->
            El("D:multistatus", "", <<
                El("D:response", "", <<
                    El("D:propstat", "", << El("D:status", "HTTP/1.1 200 OK", <<>>) >>)
                >>) >>)
      [] data = "two" ->
            El("D:multistatus", "", <<
                El("D:response", "", <<
                    El("D:href", "/file", <<>>),
                    El("D:propstat", "", << El("D:prop", "", FileKids) >>),
                    El("D:propstat", "", << El("D:prop", "", SizedDirKids) >>) >>),
                El("D:response", "", <<
                    El("D:propstat", "", << El("D:prop", "", SizedDirKids) >>) >>) >>)
      [] data = "comment" -> NoElement
      [] OTHER -> El("html", "", <<>>)

\* the texts that are one whole XML document; "comment" holds a comment and
\* no element, which tinyxml2 parses without error
WellFormed ==
    {"file1024", "dir", "dirsized", "nolength", "noresponse", "nopropstat",
     "noprop", "two", "comment", "html"}

\* tinyxml2 XMLDocument::Parse: XML_SUCCESS or not
XmlParseOk(text) == Len(text) = 1 /\ text[1].data \in WellFormed

\* std::string::size of the buffered text
RECURSIVE TextSize(_)
TextSize(text) ==
    IF text = <<>> THEN 0 ELSE text[1].len + TextSize(Tail(text))

\* std::stoll of an element's text
StoLL(text) ==
    CASE text = "1024" -> 1024
      [] text = "4096" -> 4096
      [] text = "0" -> 0
      [] OTHER -> 0

\* the children of e with one of the names, in document order
KidsNamed(e, names) == SelectSeq(e.kids, LAMBDA k : k.name \in names)

-----------------------------------------------------------------------------
(* CurlStatOp *)

\* the loop of CurlStatOp::ParseProp over the children from index i on
RECURSIVE ParsePropFrom(_, _, _)
ParsePropFrom(w, kids, i) ==
    IF i > Len(kids) THEN w
    ELSE LET child == kids[i]
             w1 == IF child.name \in {"D:getcontentlength", "lp1:getcontentlength"}
                   THEN IF child.text # ""
                        THEN [w EXCEPT !.op.m_length = StoLL(child.text)]
                        ELSE w
                   ELSE IF child.name \in {"D:resourcetype", "lp1:resourcetype"}
                        THEN [w EXCEPT !.op.m_is_dir =
                                 KidsNamed(child, {"D:collection"}) # <<>>]
                        ELSE w
         IN  ParsePropFrom(w1, kids, i + 1)

\* CurlStatOp::ParseProp (prop is not null)
ParseProp(w, prop) ==
    LET w1 == ParsePropFrom(w, prop.kids, 1)
    IN  Ret(w1, <<w1.op.m_length, w1.op.m_is_dir>>)

\* the D:prop elements under the D:propstat children of a response element
RECURSIVE PropsUnder(_, _)
PropsUnder(propstats, i) ==
    IF i > Len(propstats) THEN <<>>
    ELSE KidsNamed(propstats[i], {"D:prop"}) \o PropsUnder(propstats, i + 1)

\* elem->Name() on the null pointer RootElement() returns for a document
\* without an element: the process dies there, or the read yields a name
\* that differs from D:multistatus and the function returns rv
NullDerefOutcomes == {"crash", "mismatch"}
NullDeref(w, rv) ==
    IF w.ub = "crash" THEN Ret([w EXCEPT !.fault = TRUE], rv) ELSE Ret(w, rv)

\* CurlStatOp::GetStatInfo reading the last response element, not the first
GetStatInfo_LastResponse(w) ==
    IF ~w.op.m_is_propfind
    THEN LET w1 == [w EXCEPT !.op.m_length = w.op.m_headers.content_length]
         IN  Ret(w1, <<w1.op.m_length, FALSE>>)
    ELSE IF w.op.m_length >= 0
    THEN Ret(w, <<w.op.m_length, w.op.m_is_dir>>)
    ELSE IF ~XmlParseOk(w.op.m_response)
    THEN Ret(w, <<-1, FALSE>>)
    ELSE LET root == XmlDocument(w.op.m_response[1].data)
         IN  IF root = NoElement THEN NullDeref(w, <<-1, FALSE>>)
             ELSE IF root.name # "D:multistatus" THEN Ret(w, <<-1, FALSE>>)
             ELSE LET responses == KidsNamed(root, {"D:response"})
                  IN  IF responses = <<>> THEN Ret(w, <<-1, FALSE>>)
                      ELSE LET props == PropsUnder(
                                   KidsNamed(responses[Len(responses)],
                                             {"D:propstat"}), 1)
                           IN  IF props = <<>> THEN Ret(w, <<-1, FALSE>>)
                               ELSE ParseProp(w, props[1])

\* CurlStatOp::GetStatInfo: the (size, isdir) pair
GetStatInfo(w) ==
    IF ~w.op.m_is_propfind
    THEN LET w1 == [w EXCEPT !.op.m_length = w.op.m_headers.content_length]
         IN  Ret(w1, <<w1.op.m_length, FALSE>>)
    ELSE IF w.op.m_length >= 0
    THEN Ret(w, <<w.op.m_length, w.op.m_is_dir>>)
    ELSE IF ~XmlParseOk(w.op.m_response)
    THEN Ret(w, <<-1, FALSE>>)
    ELSE LET root == XmlDocument(w.op.m_response[1].data)
         IN  IF root = NoElement THEN NullDeref(w, <<-1, FALSE>>)
             ELSE IF root.name # "D:multistatus" THEN Ret(w, <<-1, FALSE>>)
             ELSE LET responses == KidsNamed(root, {"D:response"})
                  IN  IF responses = <<>> THEN Ret(w, <<-1, FALSE>>)
                      ELSE LET props == PropsUnder(
                                   KidsNamed(responses[1], {"D:propstat"}), 1)
                           IN  IF props = <<>> THEN Ret(w, <<-1, FALSE>>)
                               ELSE ParseProp(w, props[1])

\* CurlStatOp::Setup
CurlStatOp_Setup(w) ==
    LET w1 == CurlOperation_Setup(w)
        w2 == [w1 EXCEPT !.curl.writefunction = "CurlStatOp::WriteCallback",
                         !.curl.writedata = TRUE]
    IN  IF w2.op.m_is_origin /\ w2.op.m_is_pelican
        THEN [w2 EXCEPT !.curl.customrequest = "PROPFIND",
                        !.op.m_is_propfind = TRUE]
        ELSE w2

\* CurlStatOp::Redirect
CurlStatOp_Redirect(w, startOk) ==
    LET r == CurlOperation_Redirect(w, startOk)
    IN  IF r.w.op.m_is_pelican
        THEN Ret([r.w EXCEPT !.curl.customrequest = "PROPFIND",
                             !.op.m_is_propfind = TRUE], r.rv)
        ELSE Ret([r.w EXCEPT !.curl.nobody = 1], r.rv)

\* CurlStatOp::ReleaseHandle
CurlStatOp_ReleaseHandle(w) ==
    IF ~w.op.m_curl THEN w
    ELSE LET w1 == [w EXCEPT !.curl.nobody = 0]
             w2 == IF w1.op.m_is_propfind
                   THEN [w1 EXCEPT !.curl.customrequest = ""] ELSE w1
         IN  CurlOperation_ReleaseHandle(
                 [w2 EXCEPT !.curl.writefunction = "", !.curl.writedata = FALSE])

\* the cap of CurlStatOp::WriteCallback on the buffered PROPFIND body
StatResponseCap == 1000000

\* CurlStatOp::WriteCallback without the cap
CurlStatOp_WriteCallback_NoCap(w, chunk) ==
    IF w.op.m_is_propfind
    THEN Ret([w EXCEPT !.op.m_response = Append(@, chunk)], chunk.len)
    ELSE Ret(w, chunk.len)

\* CurlStatOp::WriteCallback: the number of bytes taken, 0 to abort
CurlStatOp_WriteCallback(w, chunk) ==
    IF w.op.m_is_propfind
    THEN IF chunk.len + TextSize(w.op.m_response) > StatResponseCap
         THEN Ret(w, 0)
         ELSE Ret([w EXCEPT !.op.m_response = Append(@, chunk)], chunk.len)
    ELSE Ret(w, chunk.len)

\* the mirror recorded for the authoritative origin as well
StatCacheMirror_IgnoresOrigin(w) ==
    IF w.op.m_dcache /\ w.op.m_mirror_url # ""
    THEN [w EXCEPT !.dcache = Append(@, <<w.op.m_mirror_url, w.op.m_mirror_depth>>)]
    ELSE w

\* the part of CurlStatOp::Success that records the mirror in the cache
StatCacheMirror(w) ==
    IF w.op.m_dcache /\ ~w.op.m_is_origin /\ w.op.m_mirror_url # ""
    THEN [w EXCEPT !.dcache = Append(@, <<w.op.m_mirror_url, w.op.m_mirror_depth>>)]
    ELSE w

\* CurlStatOp::Success
CurlStatOp_Success(w) ==
    LET r == GetStatInfo(SetDone(w))
        size == r.rv[1]
        isdir == r.rv[2]
    IN  IF r.w.fault THEN r.w
        ELSE IF size < 0
        THEN Fail(r.w, "errErrorResponse", "kXR_FSError",
                  "Server responded without object size")
        ELSE IF ~r.w.op.m_handler THEN r.w
        ELSE ClearHandler(HandleResponse(StatCacheMirror(r.w),
                 OkResponse("stat", 0, 0, size, isdir)))

-----------------------------------------------------------------------------
(* CurlOpenOp *)

\* m_file->SetProperty(name, value): the property map with name set
SetProperty(w, name, value) ==
    [w EXCEPT !.file = [n \in DOMAIN w.file \cup {name} |->
                           IF n = name THEN value ELSE w.file[n]]]

\* std::to_string of a size
SizeToString(size) ==
    CASE size = 1024 -> "1024"
      [] size = 4096 -> "4096"
      [] size = 0 -> "0"
      [] size = -1 -> "-1"
      [] OTHER -> "?"

\* the properties of CurlOpenOp::Success written without their conditions
OpenProperties_Unconditional(w) ==
    SetProperty(SetProperty(SetProperty(w, "LastURL", w.curl.url),
                            "UseX509Auth", "true"),
                "BrokerURL", w.op.m_broker_url)

\* the properties CurlOpenOp::Success writes before it looks at the stat
OpenProperties(w) ==
    LET w1 == SetProperty(w, "LastURL", w.curl.url)
        w2 == IF w1.op.m_x509_auth THEN SetProperty(w1, "UseX509Auth", "true") ELSE w1
    IN  IF w2.op.m_broker_url # ""
        THEN SetProperty(w2, "BrokerURL", w2.op.m_broker_url)
        ELSE w2

\* CurlOpenOp::ReleaseHandle
CurlOpenOp_ReleaseHandle(w) == CurlStatOp_ReleaseHandle(ClearSocketOptions(w))

\* CurlOpenOp::Success looking at the size before the directory flag
CurlOpenOp_Success_SizeFirst(w) ==
    LET r == GetStatInfo(OpenProperties(SetDone(w)))
        size == r.rv[1]
        isdir == r.rv[2]
    IN  IF r.w.fault THEN r.w
        ELSE IF size < 0
        THEN Fail(r.w, "errErrorResponse", "kXR_FSError",
                  "Server responded without object size")
        ELSE IF isdir
        THEN Fail(SetProperty(r.w, "ContentLength", SizeToString(size)),
                  "errErrorResponse", "kXR_isDirectory", "Cannot open a directory")
        ELSE CurlStatOp_Success(SetProperty(r.w, "ContentLength", SizeToString(size)))

\* CurlOpenOp::Success
CurlOpenOp_Success(w) ==
    LET r == GetStatInfo(OpenProperties(SetDone(w)))
        size == r.rv[1]
        isdir == r.rv[2]
    IN  IF r.w.fault THEN r.w
        ELSE IF isdir
        THEN Fail(r.w, "errErrorResponse", "kXR_isDirectory", "Cannot open a directory")
        ELSE CurlStatOp_Success(
                 IF size >= 0 THEN SetProperty(r.w, "ContentLength", SizeToString(size))
                 ELSE r.w)

-----------------------------------------------------------------------------
(* CurlListdirOp *)

\* the cap of CurlListdirOp::WriteCallback on the buffered PROPFIND body
ListdirResponseCap == 10000000

\* CurlListdirOp::Setup
CurlListdirOp_Setup(w) ==
    LET w1 == CurlOperation_Setup(w)
        list == Append(w1.op.m_header_list, "Depth: 1")
    IN  [w1 EXCEPT !.curl.writefunction = "CurlListdirOp::WriteCallback",
                   !.curl.writedata = TRUE,
                   !.curl.customrequest = "PROPFIND",
                   !.op.m_header_list = list,
                   !.curl.httpheader = list]

\* CurlListdirOp::ReleaseHandle
CurlListdirOp_ReleaseHandle(w) ==
    IF ~w.op.m_curl THEN w
    ELSE CurlOperation_ReleaseHandle(
             [w EXCEPT !.curl.writefunction = "", !.curl.writedata = FALSE,
                       !.curl.customrequest = "", !.curl.httpheader = <<>>,
                       !.op.m_header_list = <<>>])

\* CurlListdirOp::Success: the raw body is handed to the caller
CurlListdirOp_Success(w) ==
    LET w1 == SetDone(w)
    IN  IF ~w1.op.m_handler THEN w1
        ELSE ClearHandler(HandleResponse(w1,
                 OkResponse("listing", 0, TextSize(w1.op.m_response), 0, TRUE)))

\* CurlListdirOp::WriteCallback: the number of bytes taken, 0 to abort
CurlListdirOp_WriteCallback(w, chunk) ==
    IF chunk.len + TextSize(w.op.m_response) > ListdirResponseCap
    THEN Ret(w, 0)
    ELSE Ret([w EXCEPT !.op.m_response = Append(@, chunk)], chunk.len)

-----------------------------------------------------------------------------
(* CurlReadOp and CurlPgReadOp *)

\* XrdSys::PageSize, scaled down to the model's buffer sizes
PageSize == 2

\* CurlReadOp::Success
CurlReadOp_Success(w) ==
    LET w1 == SetDone(w)
    IN  IF ~w1.op.m_handler THEN w1
        ELSE ClearHandler(HandleResponse(w1,
                 OkResponse("chunk", w1.op.m_op.first, w1.op.m_written, 0, FALSE)))

\* XrdOucCRC::Calc32C over pgsize bytes of the buffer, from position at: the
\* checksum stands for the bytes it covers
Calc32C(b, at, pgsize) ==
    [at |-> at, len |-> pgsize, bytes |-> SubSeq(b, at + 1, at + pgsize)]

\* the checksum loop of CurlPgReadOp::Success with every page a whole page
RECURSIVE PageChecksums_WholePages(_, _, _, _, _, _)
PageChecksums_WholePages(b, at, size, pg, nbpages, cksums) ==
    IF pg >= nbpages THEN cksums
    ELSE PageChecksums_WholePages(b, at + PageSize, size - PageSize, pg + 1, nbpages,
                                  Append(cksums, Calc32C(b, at, PageSize)))

\* the checksum loop of CurlPgReadOp::Success
RECURSIVE PageChecksums(_, _, _, _, _, _)
PageChecksums(b, at, size, pg, nbpages, cksums) ==
    IF pg >= nbpages THEN cksums
    ELSE LET pgsize == IF PageSize > size THEN size ELSE PageSize
         IN  PageChecksums(b, at + pgsize, size - pgsize, pg + 1, nbpages,
                           Append(cksums, Calc32C(b, at, pgsize)))

\* CurlPgReadOp::Success; the checksum list has one entry per page
CurlPgReadOp_Success(w) ==
    LET w1 == SetDone(w)
        nbpages == (w1.op.m_written \div PageSize)
                   + (IF w1.op.m_written % PageSize # 0 THEN 1 ELSE 0)
        cksums == PageChecksums(w1.buf, 0, w1.op.m_written, 0, nbpages, <<>>)
    IN  IF ~w1.op.m_handler THEN w1
        ELSE ClearHandler(HandleResponse(w1,
                 [OkResponse("page", w1.op.m_op.first, w1.op.m_written, nbpages, FALSE)
                     EXCEPT !.cksums = cksums]))

\* Success as the operation's variant defines it
Success(w) ==
    CASE w.op.kind = "stat" -> CurlStatOp_Success(w)
      [] w.op.kind = "open" -> CurlOpenOp_Success(w)
      [] w.op.kind = "read" -> CurlReadOp_Success(w)
      [] w.op.kind = "listdir" -> CurlListdirOp_Success(w)
      [] OTHER -> CurlPgReadOp_Success(w)

\* the Range header of a read: bytes=<first>-<first + second - 1>
RangeHeader(first, second) == <<"Range: bytes=", first, first + second - 1>>

\* CurlReadOp::Setup without the short cut for a length of 0
CurlReadOp_Setup_NoShortCut(w) ==
    LET w1 == CurlOperation_Setup(w)
        w2 == [w1 EXCEPT !.curl.writefunction = "CurlReadOp::WriteCallback",
                         !.curl.writedata = TRUE]
        list == <<RangeHeader(w2.op.m_op.first, w2.op.m_op.second)>>
    IN  [w2 EXCEPT !.op.m_header_list = list, !.curl.httpheader = list]

\* CurlReadOp::Setup
CurlReadOp_Setup(w) ==
    LET w1 == CurlOperation_Setup(w)
        w2 == [w1 EXCEPT !.curl.writefunction = "CurlReadOp::WriteCallback",
                         !.curl.writedata = TRUE]
    IN  IF w2.op.m_op.second = 0 THEN Success(w2)
        ELSE LET list == <<RangeHeader(w2.op.m_op.first, w2.op.m_op.second)>>
             IN  [w2 EXCEPT !.op.m_header_list = list, !.curl.httpheader = list]

\* memcpy(m_buffer + m_written, buffer, length)
Memcpy(b, written, chunk) ==
    [i \in DOMAIN b |->
        IF i > written /\ i <= written + chunk.len THEN chunk.data ELSE b[i]]

\* CurlReadOp::Write copying the part of an overlong chunk that fits
Write_Truncates(w, chunk) ==
    LET fit == IF w.op.m_written + chunk.len > w.op.m_op.second
               THEN w.op.m_op.second - w.op.m_written ELSE chunk.len
    IN  IF w.op.m_headers.multipart
        THEN Ret(Fail(w, "errErrorResponse", "kXR_ServerError",
                      "Server responded with a multipart byterange which is not supported"), 0)
        ELSE IF w.op.m_written = 0 /\ w.op.m_headers.offset # w.op.m_op.first
        THEN Ret(Fail(w, "errErrorResponse", "kXR_ServerError",
                      "Server did not return content with correct offset"), 0)
        ELSE Ret([w EXCEPT !.buf = Memcpy(@, w.op.m_written, Chunk(fit, chunk.data)),
                           !.op.m_written = @ + fit], fit)

\* CurlReadOp::Write: the number of bytes taken, 0 to abort
Write(w, chunk) ==
    IF w.op.m_headers.multipart
    THEN Ret(Fail(w, "errErrorResponse", "kXR_ServerError",
                  "Server responded with a multipart byterange which is not supported"), 0)
    ELSE IF w.op.m_written = 0 /\ w.op.m_headers.offset # w.op.m_op.first
    THEN Ret(Fail(w, "errErrorResponse", "kXR_ServerError",
                  "Server did not return content with correct offset"), 0)
    ELSE IF w.op.m_written + chunk.len > w.op.m_op.second
    THEN Ret(Fail(w, "errErrorResponse", "kXR_ServerError",
                  "Server sent back more data than requested"), 0)
    ELSE Ret([w EXCEPT !.buf = Memcpy(@, w.op.m_written, chunk),
                       !.op.m_written = @ + chunk.len], chunk.len)

\* Setup, the body callback and Redirect as the operation's variant defines them
Setup(w) ==
    IF w.op.kind \in StatKinds THEN CurlStatOp_Setup(w)
    ELSE IF w.op.kind = "listdir" THEN CurlListdirOp_Setup(w)
    ELSE CurlReadOp_Setup(w)

WriteCallback(w, chunk) ==
    IF w.op.kind \in StatKinds THEN CurlStatOp_WriteCallback(w, chunk)
    ELSE IF w.op.kind = "listdir" THEN CurlListdirOp_WriteCallback(w, chunk)
    ELSE Write(w, chunk)

Redirect(w, startOk) ==
    IF w.op.kind \in StatKinds THEN CurlStatOp_Redirect(w, startOk)
    ELSE CurlOperation_Redirect(w, startOk)

\* CurlReadOp::ReleaseHandle
CurlReadOp_ReleaseHandle(w) ==
    IF ~w.op.m_curl THEN w
    ELSE CurlOperation_ReleaseHandle(
             [ClearSocketOptions(w) EXCEPT
                 !.curl.writefunction = "", !.curl.writedata = FALSE,
                 !.curl.httpheader = <<>>, !.op.m_header_list = <<>>])

\* ReleaseHandle as the operation's variant defines it
ReleaseHandle(w) ==
    CASE w.op.kind = "stat" -> CurlStatOp_ReleaseHandle(w)
      [] w.op.kind = "open" -> CurlOpenOp_ReleaseHandle(w)
      [] w.op.kind = "listdir" -> CurlListdirOp_ReleaseHandle(w)
      [] OTHER -> CurlReadOp_ReleaseHandle(w)

-----------------------------------------------------------------------------
(* The state after construction *)

\* the handle as the worker hands it to Setup: no option set
FreshHandle ==
    [url |-> "", headerfunction |-> "", headerdata |-> FALSE,
     writefunction |-> "", writedata |-> FALSE,
     xferinfofunction |-> "", xferinfodata |-> FALSE, noprogress |-> 1,
     sslcert |-> "", sslkey |-> "", customrequest |-> "", nobody |-> 0,
     httpheader |-> <<>>,
     opensocketfunction |-> "", opensocketdata |-> FALSE,
     sockoptfunction |-> "", sockoptdata |-> FALSE]

\* the constructors: CurlOperation, CurlStatOp, CurlOpenOp, CurlReadOp
NewOperation(kind, timeout, first, second, pelican, origin, cache, broker) ==
    [kind |-> kind, m_url |-> Url0, m_handler |-> TRUE, m_done |-> FALSE,
     m_curl |-> FALSE, m_received_header |-> FALSE, m_headers |-> HeaderParser,
     m_header_timeout |-> timeout, m_header_expiry |-> Timespec(0, 0),
     m_error |-> "ErrNone", m_x509_auth |-> FALSE,
     m_broker |-> "null", m_broker_url |-> broker,
     m_broker_reverse_socket |-> NoSocket,
     m_mirror_url |-> "", m_mirror_depth |-> 0,
     m_is_pelican |-> pelican, m_is_origin |-> origin, m_dcache |-> cache,
     m_is_propfind |-> FALSE, m_response |-> <<>>, m_length |-> -1,
     m_is_dir |-> FALSE,
     m_op |-> [first |-> first, second |-> second], m_written |-> 0,
     m_header_list |-> <<>>]

\* the operations a caller may construct
Operations(kinds, timeouts, brokers, flags) ==
    {NewOperation(k, t, 0, 0, f[1], f[2], TRUE, b) :
        k \in kinds \cap StatKinds, t \in timeouts, f \in flags, b \in brokers}
    \cup
    {NewOperation(k, t, f, n, FALSE, FALSE, FALSE, b) :
        k \in kinds \cap ReadKinds, t \in timeouts,
        f \in 0..MaxOffset, n \in 0..MaxLen, b \in brokers}

\* process configuration: the XrdCl environment's PelicanClientCertFile and
\* PelicanClientKeyFile, and the worker's UseX509Auth / ClientX509CertKeyFile
Environment(certs, keys, workerX509) ==
    [cert : certs, key : keys, worker_x509 : workerX509,
     worker_cert : {"worker.crt"}, worker_key : {"worker.key"}]

\* the driver before Setup; mode "protocol" calls back in the transport's
\* order, mode "any" in any order
NewDriver(mode) ==
    [mode |-> mode, pc |-> "created", rv |-> 0, issued |-> FALSE,
     next_fd |-> 0, handed |-> <<>>, closed |-> <<>>]

InitWith(mode, ops, envs, clocks) ==
    /\ op \in ops
    /\ curl = FreshHandle
    /\ resp = <<>>
    /\ buf = [i \in 1..op.m_op.second |-> "_"]
    /\ now \in clocks
    /\ env \in envs
    /\ file = [n \in {} |-> ""]
    /\ dcache = <<>>
    /\ drv = NewDriver(mode)

-----------------------------------------------------------------------------
(* The driver's calls *)

\* the state a call works on; ub is the outcome undefined behaviour takes in
\* the call, fault is set when the process died in it
World == [op |-> op, curl |-> curl, resp |-> resp, buf |-> buf,
          file |-> file, dcache |-> dcache, ub |-> "crash", fault |-> FALSE]

\* the state a call leaves
Commit(w) ==
    /\ op' = w.op /\ curl' = w.curl /\ resp' = w.resp /\ buf' = w.buf
    /\ file' = w.file /\ dcache' = w.dcache
    /\ UNCHANGED <<now, env>>

\* a call the transport or worker may make in one of the phases
Phase(S) ==
    IF drv.mode = "any" THEN drv.pc \notin {"created", "crashed"} ELSE drv.pc \in S

Goto(pc, rv, issued) ==
    drv' = [drv EXCEPT !.pc = IF drv.mode = "any" THEN "any" ELSE pc,
                       !.rv = rv, !.issued = issued]

\* the bytes of a header line (size * nitems)
LineSize(line) == IF line.t = "blank" THEN 2 ELSE 16

\* a response starts with its status line, and has one
ResponseOrder(line) ==
    drv.mode = "any" \/ ((line.t = "status") <=> (op.m_headers.status = 0))

\* the worker calls Setup and, unless the operation is done already, adds
\* the handle to the transfers in flight
DoSetup ==
    /\ drv.pc = "created"
    /\ LET w == Setup(World)
       IN  /\ Commit(w)
           /\ Goto(IF w.op.m_done THEN "finished" ELSE "headers", 0, ~w.op.m_done)

\* the transport hands over a header line; a return value other than the
\* line's size aborts the transfer
DoHeader(kinds, lines) ==
    /\ Phase({"headers"})
    /\ op.kind \in kinds
    /\ \E line \in lines :
        /\ ResponseOrder(line)
        /\ LET r == HeaderCallback(World, line, LineSize(line))
           IN  /\ Commit(r.w)
               /\ Goto(IF r.rv # LineSize(line) THEN "aborted"
                       ELSE IF line.t = "blank" THEN "body" ELSE "headers",
                       r.rv, drv.issued)

\* the transport hands over a chunk of the body; a return value other than
\* the chunk's length aborts the transfer
DoWrite(kinds, chunks) ==
    /\ Phase({"body"})
    /\ op.kind \in kinds
    /\ \E chunk \in chunks :
        LET r == WriteCallback(World, chunk)
        IN  /\ Commit(r.w)
            /\ Goto(IF r.rv # chunk.len THEN "aborted" ELSE "body", r.rv, drv.issued)

\* the transfer ended with a redirect status: the worker calls Redirect and
\* re-issues the request when it returns true
DoRedirect(starts) ==
    /\ Phase({"body"})
    /\ drv.mode = "any" \/ IsRedirect(op)
    /\ \E startOk \in starts :
        LET r == Redirect(World, startOk)
        IN  /\ Commit(r.w)
            /\ Goto(IF r.rv THEN "headers" ELSE "finished",
                    IF r.rv THEN 1 ELSE 0, drv.issued \/ r.rv)

\* the transfer ended without error and without redirect: Success
DoSuccess ==
    /\ Phase({"body"})
    /\ drv.mode = "any" \/ ~IsRedirect(op)
    /\ \E ub \in NullDerefOutcomes :
        LET w == Success([World EXCEPT !.ub = ub])
        IN  /\ Commit(w)
            /\ IF w.fault THEN drv' = [drv EXCEPT !.pc = "crashed"]
               ELSE Goto("finished", 0, drv.issued)

\* the worker takes the handle back from an operation that has ended, and
\* may do so again
DoRelease ==
    /\ drv.pc \in {"finished", "released"}
    /\ Commit(ReleaseHandle(World))
    /\ Goto("released", 0, drv.issued)

\* the broker's descriptor is readable: the worker calls WaitSocketCallback;
\* FinishRequest fails or returns a descriptor not seen before
DoWaitSocket(finishes) ==
    /\ Phase({"headers"})
    /\ \E ok \in finishes :
        /\ ok => drv.next_fd < MaxSockets
        /\ LET r == WaitSocketCallback(World, IF ok THEN drv.next_fd ELSE NoSocket)
               called == op.m_broker # "null"
           IN  /\ Commit(r.w)
               /\ drv' = [drv EXCEPT !.rv = r.rv,
                                     !.next_fd = IF ok /\ called THEN @ + 1 ELSE @]

\* the transport opens its connection through the socket-open hook; without
\* a descriptor the connection fails and the transfer is aborted
DoOpenSocket ==
    /\ Phase({"headers"})
    /\ curl.opensocketfunction # ""
    /\ LET r == OpenSocketCallback(World)
       IN  /\ Commit(r.w)
           /\ drv' = [drv EXCEPT !.rv = r.rv,
                                 !.pc = IF r.rv = CurlSocketBad THEN "aborted" ELSE @,
                                 !.handed = IF r.rv = CurlSocketBad THEN @
                                            ELSE Append(@, r.rv)]

\* the connection failed: the worker retries once through the broker and
\* gives the operation up when StartBroker returns false
DoStartBroker(starts) ==
    /\ Phase({"headers"})
    /\ \E startOk \in starts, ub \in NullDerefOutcomes :
        LET r == StartBroker([World EXCEPT !.ub = ub], startOk)
        IN  /\ Commit(r.w)
            /\ IF r.w.fault THEN drv' = [drv EXCEPT !.pc = "crashed"]
               ELSE Goto(IF r.rv THEN "headers" ELSE "finished",
                         IF r.rv THEN 1 ELSE 0, drv.issued)

\* the operation is destroyed after it has ended
DoDestroy ==
    /\ drv.pc \in {"finished", "released"}
    /\ LET r == Destructor(World)
       IN  /\ Commit(r.w)
           /\ drv' = [drv EXCEPT !.pc = "destroyed",
                                 !.closed = IF r.rv = NoSocket THEN @
                                            ELSE Append(@, r.rv)]

\* Success called although the transport aborted the transfer
DoSuccessAborted ==
    /\ drv.pc = "aborted"
    /\ \E ub \in NullDerefOutcomes :
        LET w == Success([World EXCEPT !.ub = ub])
        IN  /\ Commit(w)
            /\ IF w.fault THEN drv' = [drv EXCEPT !.pc = "crashed"]
               ELSE Goto("finished", 0, drv.issued)

\* the transfer ended with a transport error: the worker calls Fail
DoFail ==
    /\ Phase({"headers", "body", "aborted"})
    /\ Commit(IF op.m_error = "ErrHeaderTimeout"
              THEN Fail(World, "errOperationExpired", "1", "Timeout waiting for headers")
              ELSE Fail(World, "errConnectionError", "1", "curl failed"))
    /\ Goto("finished", 0, drv.issued)

\* the transport polls progress; a return value of 1 aborts the transfer
DoXferInfo ==
    /\ Phase({"headers", "body"})
    /\ LET r == XferInfoCallback(World)
       IN  /\ Commit(r.w)
           /\ Goto(IF r.rv = 1 THEN "aborted" ELSE drv.pc, r.rv, drv.issued)

\* ts1 is a later time than ts2 (both normalised)
Later(ts1, ts2) ==
    ts1.sec > ts2.sec \/ (ts1.sec = ts2.sec /\ ts1.nsec > ts2.nsec)

\* time passes
Tick(clocks) ==
    /\ now' \in {t \in clocks : Later(t, now)}
    /\ UNCHANGED <<op, curl, resp, buf, env, file, dcache, drv>>

-----------------------------------------------------------------------------
(* Specifications *)

NoConfig == Environment({""}, {""}, {FALSE})
Epoch == {Timespec(0, 0)}

\* the body of a read arrives in chunks of a few bytes
ReadChunks == {Chunk(n, "d") : n \in 1..(MaxLen + 1)}

\* the body of a stat is a document, or a part of one, of about half the cap
StatChunks(lens) == {Chunk(n, d) : n \in lens, d \in {"file1024", "dir"}}
HalfCap == {StatResponseCap \div 2, StatResponseCap \div 2 + 1}

CoreLines ==
    StatusLines \cup
    {Line("location", Url1, 0), Line("content-length", "", 1024),
     Line("blank", "", 0), Line("bad", "", 0)}
    \cup {Line("content-range", "", n) : n \in 1..MaxOffset}

\* the lines of a redirect response that change how the request is re-issued
RedirectLines ==
    {Line("x509", "", 0), Line("broker", Broker1, 0), Line("mirror", Mirror1, 1)}

SpecLines == CoreLines \cup {Line("multipart", "", 0)}

\* every operation, driven in the transport's order
Init ==
    InitWith("protocol", Operations(Kinds, Epoch, {""}, BOOLEAN \X BOOLEAN),
             NoConfig, Epoch)

Next ==
    \/ DoSetup
    \/ DoHeader(Kinds, SpecLines)
    \/ DoWrite(ReadKinds, ReadChunks)
    \/ DoWrite(StatKinds, StatChunks(HalfCap))
    \/ DoRedirect({TRUE})
    \/ DoSuccess
    \/ DoFail

Spec == Init /\ [][Next]_vars

\* every operation, called back in any order and any number of times
AnyLines ==
    {Line("status", "OK", 200), Line("status", "Not Found", 404),
     Line("location", Url1, 0), Line("blank", "", 0)}

\* the lines whose fields a stat reads, and those a read reads
AnyStatLines ==
    AnyLines \cup {Line("content-length", "", 1024), Line("broker", Broker1, 0)}
AnyReadLines ==
    AnyLines \cup {Line("content-range", "", 1), Line("multipart", "", 0)}

InitAny ==
    InitWith("any", Operations(Kinds, Epoch, {""}, {<<FALSE, FALSE>>, <<TRUE, TRUE>>}),
             NoConfig, Epoch)

NextAny ==
    \/ DoSetup
    \/ DoHeader(StatKinds, AnyStatLines)
    \/ DoHeader(ReadKinds, AnyReadLines)
    \/ DoWrite(ReadKinds, ReadChunks)
    \/ DoWrite(StatKinds, StatChunks({StatResponseCap \div 2 + 1}))
    \/ DoRedirect(BOOLEAN)
    \/ DoSuccess
    \/ DoFail

SpecAny == InitAny /\ [][NextAny]_vars

\* redirects: every operation, the lines of a redirect response, each
\* answer of the broker, and each process configuration
RedirectResponseLines ==
    {Line("status", "Temporary Redirect", 307), Line("status", "OK", 200),
     Line("location", Url1, 0), Line("blank", "", 0)} \cup RedirectLines

Configs == Environment({"", "env.crt"}, {"", "env.key"}, BOOLEAN)

InitRedirect ==
    InitWith("protocol",
             Operations(Kinds, Epoch, {""}, {<<FALSE, FALSE>>, <<TRUE, FALSE>>}),
             Configs, Epoch)

NextRedirect ==
    \/ DoSetup
    \/ DoHeader(Kinds, RedirectResponseLines)
    \/ DoRedirect(BOOLEAN)
    \/ DoSuccess
    \/ DoFail

SpecRedirect == InitRedirect /\ [][NextRedirect]_vars

\* the header timeout: the clock advances between the transport's calls
TimeNsecs == {0, 1, NsPerSec - 1}
Clocks ==
    {Timespec(s, n) :
        s \in (0..(2 * MaxSec + 1)) \cup
              {DefaultHeaderTimeoutSec + d : d \in 0..(MaxSec + 1)},
        n \in TimeNsecs}
Timeouts == {Timespec(s, n) : s \in 0..MaxSec, n \in TimeNsecs}
StartClocks == {Timespec(s, n) : s \in 0..MaxSec, n \in TimeNsecs}

\* the lines of a response that is neither an error nor a redirect
TimeoutLines == {Line("status", "OK", 200), Line("blank", "", 0)}

InitTimeout ==
    InitWith("protocol",
             Operations({"stat", "read"}, Timeouts, {""}, {<<FALSE, FALSE>>}),
             NoConfig, StartClocks)

NextTimeout ==
    \/ DoSetup
    \/ Tick(Clocks)
    \/ DoXferInfo
    \/ DoHeader(Kinds, TimeoutLines)
    \/ DoSuccess
    \/ DoFail

SpecTimeout == InitTimeout /\ [][NextTimeout]_vars

\* page reads of up to a few pages, driven in the transport's order
PgReadOperations ==
    {NewOperation("pgread", Timespec(0, 0), f, n, FALSE, FALSE, FALSE, "") :
        f \in 0..MaxOffset, n \in 0..MaxPgLen}
PgReadChunks == {Chunk(n, "d") : n \in 1..PageSize}
PgReadLines ==
    {Line("status", "OK", 206), Line("status", "Not Found", 404),
     Line("blank", "", 0)} \cup {Line("content-range", "", n) : n \in 1..MaxOffset}

InitPgRead == InitWith("protocol", PgReadOperations, NoConfig, Epoch)

NextPgRead ==
    \/ DoSetup
    \/ DoHeader(ReadKinds, PgReadLines)
    \/ DoWrite(ReadKinds, PgReadChunks)
    \/ DoSuccess
    \/ DoFail

SpecPgRead == InitPgRead /\ [][NextPgRead]_vars

\* stat and open, with the documents a PROPFIND may be answered with
StatDocuments == WellFormed \cup {"garbage"}
StatOperations ==
    {NewOperation(k, Timespec(0, 0), 0, 0, f[1], f[2], TRUE, "") :
        k \in StatKinds, f \in {<<TRUE, TRUE>>, <<TRUE, FALSE>>, <<FALSE, FALSE>>}}
StatLines ==
    {Line("status", "OK", 200), Line("status", "Temporary Redirect", 307),
     Line("status", "Not Found", 404), Line("location", Url1, 0),
     Line("content-length", "", 1024), Line("blank", "", 0)}

InitStat == InitWith("protocol", StatOperations, NoConfig, Epoch)

NextStat ==
    \/ DoSetup
    \/ DoHeader(StatKinds, StatLines)
    \/ DoWrite(StatKinds, {Chunk(StatResponseCap \div 2, d) : d \in StatDocuments})
    \/ DoRedirect({TRUE})
    \/ DoSuccess
    \/ DoFail

SpecStat == InitStat /\ [][NextStat]_vars

\* the operations that buffer a PROPFIND body, with chunks of about half
\* their cap
CapKinds == StatKinds \cup {"listdir"}
CapOperations ==
    {NewOperation(k, Timespec(0, 0), 0, 0, f[1], f[2], TRUE, "") :
        k \in CapKinds, f \in {<<TRUE, TRUE>>, <<TRUE, FALSE>>}}
CapLines ==
    {Line("status", "OK", 200), Line("status", "Temporary Redirect", 307),
     Line("location", Url1, 0), Line("blank", "", 0)}
HalfOf(cap) == {cap \div 2, cap \div 2 + 1}
CapChunks(cap) == {Chunk(n, d) : n \in HalfOf(cap), d \in {"file1024", "garbage"}}

InitCap == InitWith("protocol", CapOperations, NoConfig, Epoch)

NextCap ==
    \/ DoSetup
    \/ DoHeader(CapKinds, CapLines)
    \/ DoWrite(StatKinds, CapChunks(StatResponseCap))
    \/ DoWrite({"listdir"}, CapChunks(ListdirResponseCap))
    \/ DoRedirect({TRUE})
    \/ DoFail

SpecCap == InitCap /\ [][NextCap]_vars

\* a PROPFIND body that overruns the cap, and any terminal call after it
OverflowOperations ==
    {NewOperation(k, Timespec(0, 0), 0, 0, TRUE, o, TRUE, "") :
        k \in StatKinds, o \in BOOLEAN}
OverflowChunks ==
    {Chunk(n, d) : n \in HalfOf(StatResponseCap),
                   d \in {"file1024", "dir", "garbage", "comment"}}

InitOverflow == InitWith("protocol", OverflowOperations, NoConfig, Epoch)

NextOverflow ==
    \/ DoSetup
    \/ DoHeader(StatKinds, CapLines)
    \/ DoWrite(StatKinds, OverflowChunks)
    \/ DoRedirect({TRUE})
    \/ DoSuccess
    \/ DoSuccessAborted
    \/ DoFail

SpecOverflow == InitOverflow /\ [][NextOverflow]_vars

\* every operation from Setup to the return of its handle, with and
\* without a broker and client certificates
AllKinds == Kinds \cup {"listdir"}
ReleaseOperations ==
    {NewOperation(k, Timespec(0, 0), 0, IF k \in ReadKinds THEN 1 ELSE 0,
                  p, FALSE, FALSE, b) :
        k \in AllKinds, p \in BOOLEAN, b \in {"", Broker1}}
ReleaseConfigs == Environment({"env.crt"}, {"env.key"}, BOOLEAN)
ReleaseLines ==
    {Line("status", "OK", 200), Line("status", "Temporary Redirect", 307),
     Line("location", Url1, 0), Line("x509", "", 0), Line("broker", Broker1, 0),
     Line("blank", "", 0)}

InitRelease == InitWith("protocol", ReleaseOperations, ReleaseConfigs, Epoch)

NextRelease ==
    \/ DoSetup
    \/ DoHeader(AllKinds, ReleaseLines)
    \/ DoRedirect({TRUE})
    \/ DoSuccess
    \/ DoFail
    \/ DoRelease

SpecRelease == InitRelease /\ [][NextRelease]_vars

\* operations that connect through the broker, from configuration or from
\* a redirect
BrokerOperations ==
    {NewOperation(k, Timespec(0, 0), 0, IF k = "read" THEN 1 ELSE 0,
                  FALSE, FALSE, FALSE, b) :
        k \in {"stat", "read"}, b \in {"", Broker1}}
BrokerLines ==
    {Line("status", "OK", 200), Line("status", "Temporary Redirect", 307),
     Line("location", Url1, 0), Line("broker", Broker1, 0), Line("blank", "", 0)}

InitBroker == InitWith("protocol", BrokerOperations, NoConfig, Epoch)

NextBroker ==
    \/ DoSetup
    \/ DoWaitSocket(BOOLEAN)
    \/ DoOpenSocket
    \/ DoStartBroker(BOOLEAN)
    \/ DoHeader(Kinds, BrokerLines)
    \/ DoRedirect(BOOLEAN)
    \/ DoSuccess
    \/ DoFail
    \/ DoRelease
    \/ DoDestroy

SpecBroker == InitBroker /\ [][NextBroker]_vars

\* stat and open with the hints a redirect may carry: client X509 auth, a
\* broker, a mirror of the namespace, with and without a metadata cache
MetaOperations ==
    {NewOperation(k, Timespec(0, 0), 0, 0, TRUE, origin, cache, "") :
        k \in StatKinds, origin \in BOOLEAN, cache \in BOOLEAN}
MetaLines ==
    {Line("status", "OK", 200), Line("status", "Temporary Redirect", 307),
     Line("location", Url1, 0), Line("content-length", "", 1024),
     Line("blank", "", 0), Line("mirror", Url1, 2)} \cup RedirectLines

InitMeta == InitWith("protocol", MetaOperations, NoConfig, Epoch)

NextMeta ==
    \/ DoSetup
    \/ DoHeader(StatKinds, MetaLines)
    \/ DoWrite(StatKinds, StatChunks({StatResponseCap \div 2}))
    \/ DoRedirect({TRUE})
    \/ DoSuccess
    \/ DoFail

SpecMeta == InitMeta /\ [][NextMeta]_vars

\* the header timeout across a redirect: the clock advances between the
\* transport's calls, and the request is issued again after a redirect
NextRetimeout ==
    \/ DoSetup
    \/ Tick(Clocks)
    \/ DoXferInfo
    \/ DoHeader(Kinds, CapLines)
    \/ DoRedirect({TRUE})
    \/ DoSuccess
    \/ DoFail

SpecRetimeout == InitTimeout /\ [][NextRetimeout]_vars

-----------------------------------------------------------------------------
(* Properties *)

\* the last response handed to the handler
LastResp == resp[Len(resp)]

\* this step handed exactly the failure (errCode, errNum, msg) to the handler
DeliversFail(errCode, errNum, msg) ==
    /\ Len(resp') = Len(resp) + 1
    /\ SubSeq(resp', 1, Len(resp)) = resp
    /\ resp'[Len(resp')].type = "fail"
    /\ resp'[Len(resp')].errCode = errCode
    /\ resp'[Len(resp')].errNum = errNum
    /\ resp'[Len(resp')].msg = msg

\* this step failed the operation: done is set, the sink is cleared, and a
\* failure was delivered if the sink was still present
FailsOperation ==
    /\ op'.m_done /\ ~op'.m_handler
    /\ IF op.m_handler
       THEN /\ Len(resp') = Len(resp) + 1
            /\ resp'[Len(resp')].type = "fail"
       ELSE resp' = resp

C2_NoCopyAfterDone ==
    [][\A chunk \in ReadChunks :
          (op.m_done /\ DoWrite(ReadKinds, {chunk})) =>
              (buf' = buf /\ op'.m_written = op.m_written)]_vars

(* C3: the header callback that sees the headers complete with an error    *)
(* status fails the operation in that call, with the error code mapped     *)
(* from the status and the server's status message, and touches no body    *)
(* state; a header callback that does not see completed headers with an    *)
(* error status delivers nothing.                                          *)
C3_HeaderFailsOnErrorStatus ==
    [][\A line \in SpecLines :
          DoHeader(Kinds, {line}) =>
              LET h == op'.m_headers
              IN  /\ buf' = buf /\ op'.m_written = op.m_written
                  /\ IF h.done /\ HTTPStatusIsError(h.status)
                     THEN /\ op'.m_done /\ ~op'.m_handler
                          /\ IF op.m_handler
                             THEN DeliversFail(HTTPStatusConvert(h.status)[1],
                                               HTTPStatusConvert(h.status)[2], h.msg)
                             ELSE resp' = resp
                     ELSE resp' = resp /\ op'.m_done = op.m_done]_vars

\* a read failed with the server's 404 before any byte was copied
C3_Witness ==
    /\ op.kind = "read" /\ Len(resp) = 1
    /\ resp[1].errNum = "kXR_NotFound" /\ resp[1].msg = "Not Found"
    /\ op.m_written = 0 /\ drv.pc = "body"

(* C4: a header line the parser cannot parse does not make the header      *)
(* callback fail the operation or tell the transport to abort.             *)
C4_BadHeaderNonFatal ==
    [][DoHeader(Kinds, {Line("bad", "", 0)}) =>
          /\ drv'.rv = LineSize(Line("bad", "", 0))
          /\ drv'.pc # "aborted"
          /\ resp' = resp /\ op'.m_done = op.m_done]_vars

(* C5: Redirect returns false exactly when the response has no location or *)
(* the broker request of a broker hint cannot be started; then it has      *)
(* failed the operation; otherwise it returns true and delivers nothing.   *)
(* With no location the handle's URL is unchanged.                         *)
C5_RedirectFalseIffFailed ==
    [][\A startOk \in BOOLEAN :
          DoRedirect({startOk}) =>
              LET failing == \/ op.m_headers.location = ""
                             \/ (op.m_headers.broker # "" /\ ~startOk)
              IN  /\ (drv'.rv = 0) <=> failing
                  /\ failing => FailsOperation
                  /\ ~failing => (resp' = resp /\ op'.m_done = op.m_done)
                  /\ op.m_headers.location = "" => curl'.url = curl.url]_vars

\* a redirect without location has failed the operation; the URL is as set up
C5_Witness ==
    /\ Len(resp) = 1
    /\ resp[1].msg = "Server returned redirect without updated location"
    /\ curl.url = Url0 /\ drv.pc = "finished" /\ drv.rv = 0

\* this step is a Redirect that returned true for a response with a
\* location and the X.509-auth-required flag
RedirectsWithX509 ==
    /\ \E startOk \in BOOLEAN : DoRedirect({startOk})
    /\ op.m_headers.x509 /\ op.m_headers.location # ""
    /\ drv'.rv = 1

\* after such a step the flag is set and the header state is empty
X509FlagAndEmptyHeaders ==
    /\ op'.m_x509_auth
    /\ op'.m_headers = HeaderParser
    /\ ~IsRedirect(op')

(* C6, as the spec states it: after Redirect returns true for a response   *)
(* with a location and the X.509 flag, m_x509_auth is set and stays set,   *)
(* the handle carries a client certificate and key, and the header state   *)
(* is empty.                                                               *)
C6_RedirectX509_AsStated ==
    /\ [][RedirectsWithX509 =>
             /\ X509FlagAndEmptyHeaders
             /\ curl'.sslcert # "" /\ curl'.sslkey # ""]_vars
    /\ [][op.m_x509_auth => op'.m_x509_auth]_vars

(* C6, amended: ... the handle carries the certificate and the key file    *)
(* that the process configuration names; a file the configuration leaves   *)
(* empty is not installed, and the handle keeps what it had.               *)
C6_RedirectX509 ==
    /\ [][RedirectsWithX509 =>
             /\ X509FlagAndEmptyHeaders
             /\ curl'.sslcert = IF env.cert # "" THEN env.cert ELSE curl.sslcert
             /\ curl'.sslkey = IF env.key # "" THEN env.key ELSE curl.sslkey]_vars
    /\ [][op.m_x509_auth => op'.m_x509_auth]_vars

\* the request re-issued to the new location with the configured certificate
C6_Witness ==
    /\ op.m_x509_auth /\ op.m_headers = HeaderParser
    /\ curl.url = Url1 /\ curl.sslcert = "env.crt" /\ curl.sslkey = "env.key"
    /\ drv.pc = "headers" /\ drv.rv = 1 /\ ~env.worker_x509

\* the instant a stored timespec denotes
Normalised(ts) ==
    IF ts.nsec >= NsPerSec THEN Timespec(ts.sec + 1, ts.nsec - NsPerSec) ELSE ts

(* C7: the progress callback tells the transport to abort exactly when no  *)
(* header has been received and the current time is later than the         *)
(* deadline Setup stored; the header-timeout error is set exactly then.    *)
C7_TimeoutExactlyAfterDeadline ==
    [][DoXferInfo =>
          LET expired == /\ ~op.m_received_header
                         /\ Later(now, Normalised(op.m_header_expiry))
          IN  /\ (drv'.rv = 1) <=> expired
              /\ (drv'.pc = "aborted") <=> expired
              /\ op'.m_error = IF expired THEN "ErrHeaderTimeout" ELSE op.m_error]_vars

(* C8: a read of length 0 is done when Setup returns: the handler has got  *)
(* a chunk with the requested offset and length 0, no Range header is on   *)
(* the handle, and no request is issued.                                   *)
C8_ZeroLengthRead ==
    (op.kind \in ReadKinds /\ op.m_op.second = 0 /\ drv.pc # "created") =>
        /\ op.m_done /\ ~op.m_handler
        /\ Len(resp) = 1
        /\ resp[1].type = (IF op.kind = "read" THEN "chunk" ELSE "page")
        /\ resp[1].offset = op.m_op.first /\ resp[1].length = 0
        /\ curl.httpheader = <<>> /\ op.m_header_list = <<>>
        /\ ~drv.issued /\ drv.pc = "finished"

\* a zero-length read at offset 1 after Setup
C8_Witness ==
    /\ op.kind = "read" /\ op.m_op = [first |-> 1, second |-> 0]
    /\ drv.pc = "finished" /\ Len(resp) = 1 /\ resp[1].type = "chunk"
    /\ op.m_curl

(* C9: m_written never exceeds the requested length and never decreases; a *)
(* chunk that would take it past the requested length is rejected whole    *)
(* (nothing copied, m_written unchanged, 0 returned) and the operation     *)
(* fails.                                                                  *)
C9_WrittenBounded ==
    /\ [](op.m_written <= op.m_op.second)
    /\ [][op'.m_written >= op.m_written]_vars
    /\ [][\A chunk \in ReadChunks :
             (/\ DoWrite(ReadKinds, {chunk})
              /\ op.m_written + chunk.len > op.m_op.second) =>
                 /\ buf' = buf /\ op'.m_written = op.m_written
                 /\ drv'.rv = 0
                 /\ FailsOperation]_vars

\* one byte copied, then a chunk that overruns the buffer was rejected
C9_Witness ==
    /\ op.m_op.second = 2 /\ op.m_written = 1 /\ buf = <<"d", "_">>
    /\ Len(resp) = 1
    /\ resp[1].msg = "Server sent back more data than requested"

(* C10: a body chunk of a response whose reported start offset differs     *)
(* from the requested offset is never copied: the read fails with the      *)
(* buffer and m_written untouched, and never delivers success.             *)
C10_OffsetMismatchFails ==
    [][\A chunk \in ReadChunks :
          (/\ DoWrite(ReadKinds, {chunk})
           /\ op.m_headers.offset # op.m_op.first) =>
              /\ buf' = buf /\ op'.m_written = op.m_written
              /\ drv'.rv = 0
              /\ op'.m_done /\ ~op'.m_handler
              /\ Len(resp') = 1 /\ resp'[1].type = "fail"]_vars

\* ceil(L / P)
CeilDiv(L, P) == (L + P - 1) \div P

RECURSIVE SumLens(_)
SumLens(cksums) ==
    IF cksums = <<>> THEN 0 ELSE cksums[1].len + SumLens(Tail(cksums))

(* C11: a delivered page-read result of L bytes carries ceil(L/P)          *)
(* checksums in page order; every page but the last covers P bytes, the    *)
(* last covers L mod P bytes (P when L mod P = 0), and the sizes sum to L. *)
C11_PageChecksums ==
    (Len(resp) >= 1 /\ LastResp.type = "page") =>
        LET L == LastResp.length
            c == LastResp.cksums
            n == Len(c)
        IN  /\ L = op.m_written
            /\ n = CeilDiv(L, PageSize)
            /\ (L = 0) => (n = 0)
            /\ \A i \in 1..n :
                 /\ c[i].at = (i - 1) * PageSize
                 /\ c[i].bytes = SubSeq(buf, c[i].at + 1, c[i].at + c[i].len)
                 /\ i < n => c[i].len = PageSize
                 /\ i = n => c[i].len = IF L % PageSize = 0 THEN PageSize
                                        ELSE L % PageSize
            /\ SumLens(c) = L

\* a page read of two pages, the last one short
C11_Witness ==
    /\ op.kind = "pgread" /\ Len(resp) = 1 /\ resp[1].type = "page"
    /\ resp[1].length = PageSize + 1 /\ Len(resp[1].cksums) = 2
    /\ resp[1].cksums[2].len = 1

\* the buffered PROPFIND body is one document that yields no size: it does
\* not parse, its root is not D:multistatus, or it has no response,
\* propstat or prop element
SizelessDocuments == {"garbage", "html", "comment", "noresponse", "nopropstat", "noprop"}
HoldsSizelessDocument ==
    /\ op.m_is_propfind /\ op.m_length < 0 /\ Len(op.m_response) = 1
    /\ op.m_response[1].data \in SizelessDocuments

(* C12: when Success is called on a stat whose buffered PROPFIND body does *)
(* not parse, has another root than multistatus, or lacks a response,      *)
(* propstat or prop element, no stat result is delivered, the size stays   *)
(* unknown (never 0), and the handler gets the failure 'Server responded   *)
(* without object size'.                                                   *)
C12_SizelessStatFails ==
    [][(DoSuccess /\ op.kind = "stat" /\ HoldsSizelessDocument) =>
          /\ op'.m_length = -1
          /\ op'.m_done /\ ~op'.m_handler
          /\ IF op.m_handler
             THEN DeliversFail("errErrorResponse", "kXR_FSError",
                               "Server responded without object size")
             ELSE resp' = resp]_vars

\* what each document says of the object: the content length and the
\* collection marker of the first prop of the first response
SizedDocuments == {"file1024", "dirsized", "two"}
DocumentSize(data) == IF data = "dirsized" THEN 4096 ELSE 1024
DocumentIsDir(data) == data = "dirsized"

(* C13: Success on a stat that holds one well-formed multistatus document  *)
(* with a content length delivers the size of the getcontentlength text of *)
(* the first prop of the first response, and isDirectory exactly when that *)
(* prop's resourcetype has a collection child; a HEAD-style stat delivers  *)
(* the content-length header as size and isDirectory false.                *)
C13_StatInfo ==
    [][(DoSuccess /\ op.kind = "stat" /\ op.m_handler) =>
          /\ (/\ op.m_is_propfind /\ Len(op.m_response) = 1
              /\ op.m_response[1].data \in SizedDocuments) =>
                 /\ Len(resp') = 1 /\ resp'[1].type = "stat"
                 /\ resp'[1].size = DocumentSize(op.m_response[1].data)
                 /\ resp'[1].isdir = DocumentIsDir(op.m_response[1].data)
          /\ (~op.m_is_propfind /\ op.m_headers.content_length >= 0) =>
                 /\ Len(resp') = 1 /\ resp'[1].type = "stat"
                 /\ resp'[1].size = op.m_headers.content_length
                 /\ ~resp'[1].isdir]_vars

\* the size of the first of two response elements was delivered
C13_Witness ==
    /\ op.kind = "stat" /\ Len(resp) = 1 /\ resp[1].type = "stat"
    /\ resp[1].size = 1024 /\ ~resp[1].isdir
    /\ op.m_is_propfind /\ Len(op.m_response) = 1
    /\ op.m_response[1].data = "two"

\* the documents that describe a collection
DirDocuments == {"dir", "dirsized"}

(* C14: Success on an open whose document describes a directory, with or   *)
(* without a content length, fails the open with 'Cannot open a directory' *)
(* and records no ContentLength property; an open never delivers a result  *)
(* for a directory.                                                        *)
C14_OpenDirectoryFails ==
    /\ [][(/\ DoSuccess /\ op.kind = "open" /\ op.m_is_propfind
           /\ Len(op.m_response) = 1 /\ op.m_response[1].data \in DirDocuments) =>
             /\ op'.m_done /\ ~op'.m_handler
             /\ "ContentLength" \notin DOMAIN file'
             /\ IF op.m_handler
                THEN DeliversFail("errErrorResponse", "kXR_isDirectory",
                                  "Cannot open a directory")
                ELSE resp' = resp]_vars
    /\ [](op.kind = "open" =>
            \A i \in 1..Len(resp) : resp[i].type = "stat" => ~resp[i].isdir)

\* an open of a collection without content length, failed as a directory
C14_Witness ==
    /\ op.kind = "open" /\ Len(resp) = 1 /\ resp[1].errNum = "kXR_isDirectory"
    /\ Len(op.m_response) = 1 /\ op.m_response[1].data = "dir"
    /\ op.m_length = -1 /\ op.m_is_dir
    /\ "LastURL" \in DOMAIN file /\ "ContentLength" \notin DOMAIN file

\* the chunks an operation of the kind is handed, and the cap on its buffer
ChunksOf(kind) ==
    IF kind = "listdir" THEN CapChunks(ListdirResponseCap)
    ELSE CapChunks(StatResponseCap)
CapOf(kind) == IF kind = "listdir" THEN ListdirResponseCap ELSE StatResponseCap

(* C15: the buffered PROPFIND body of a stat never exceeds 1,000,000 bytes *)
(* and that of a listdir never 10,000,000; a chunk that would take the     *)
(* buffer past the cap leaves it unchanged and the callback returns 0, so  *)
(* the transport aborts; a chunk that fits, also exactly up to the cap, is *)
(* appended whole.                                                         *)
C15_ResponseCaps ==
    /\ [](op.kind \in CapKinds => TextSize(op.m_response) <= CapOf(op.kind))
    /\ [][\A chunk \in ChunksOf(op.kind) :
             (/\ DoWrite({op.kind}, {chunk})
              /\ op.kind = "listdir" \/ op.m_is_propfind) =>
                 IF TextSize(op.m_response) + chunk.len > CapOf(op.kind)
                 THEN /\ op'.m_response = op.m_response
                      /\ drv'.rv = 0 /\ drv'.pc = "aborted"
                 ELSE /\ op'.m_response = Append(op.m_response, chunk)
                      /\ drv'.rv = chunk.len /\ drv'.pc = "body"]_vars

\* a listdir body that filled the buffer exactly, then a chunk was rejected
C15_Witness ==
    /\ op.kind = "listdir" /\ TextSize(op.m_response) = ListdirResponseCap
    /\ drv.pc = "aborted" /\ drv.rv = 0

(* C16: after a PROPFIND body chunk of a stat was rejected for the cap, the *)
(* terminal call that follows, Success or Fail, fails the operation: the   *)
(* handler gets a failure and the retained body is not decoded into a      *)
(* size.                                                                   *)
C16_OverflowNeverSucceeds ==
    [][(/\ DoSuccessAborted \/ DoFail
        /\ drv.pc = "aborted" /\ op.kind = "stat" /\ op.m_handler) =>
          /\ op'.m_done /\ ~op'.m_handler
          /\ Len(resp') = 1 /\ resp'[1].type = "fail"
          /\ op'.m_length = -1]_vars

\* the handle h carries no callback or callback data of an operation, no
\* custom request method or header list, and no certificate or key
CarriesNothing(h) ==
    /\ h.headerfunction = "" /\ ~h.headerdata
    /\ h.writefunction = "" /\ ~h.writedata
    /\ h.xferinfofunction = "" /\ ~h.xferinfodata
    /\ h.opensocketfunction = "" /\ ~h.opensocketdata
    /\ h.sockoptfunction = "" /\ ~h.sockoptdata
    /\ h.customrequest = "" /\ h.httpheader = <<>>
    /\ h.sslcert = "" /\ h.sslkey = ""

(* C17: after ReleaseHandle the handle carries nothing that Setup or       *)
(* Redirect installed for the operation: no header, body, progress or      *)
(* socket callback or callback data, no custom request method or header    *)
(* list, no certificate or key; a second ReleaseHandle changes nothing.    *)
C17_ReleaseClearsHandle ==
    /\ [][DoRelease => CarriesNothing(curl')]_vars
    /\ [][(DoRelease /\ drv.pc = "released") => (curl' = curl /\ op' = op)]_vars

\* the number of times fd occurs in the sequence q
Count(q, fd) == Cardinality({i \in 1..Len(q) : q[i] = fd})

(* C18: the socket-open hook returns the operation's descriptor and clears *)
(* the operation's copy in the same step; without a new handoff a further  *)
(* call returns the bad-socket value; no descriptor reaches the transport  *)
(* twice, and the destructor closes no descriptor that was handed over.    *)
C18_SocketHandedOnce ==
    /\ [][DoOpenSocket =>
             /\ drv'.rv = IF op.m_broker_reverse_socket = NoSocket
                          THEN CurlSocketBad ELSE op.m_broker_reverse_socket
             /\ op'.m_broker_reverse_socket = NoSocket]_vars
    /\ [](\A fd \in 0..MaxSockets :
            /\ Count(drv.handed, fd) <= 1
            /\ Count(drv.closed, fd) <= 1
            /\ Count(drv.handed, fd) = 1 => Count(drv.closed, fd) = 0)

\* one descriptor went to the transport; a second one the broker gave was
\* never handed over, and is the only one the destructor closed
C18_Witness ==
    /\ drv.handed = <<0>> /\ drv.closed = <<1>> /\ drv.pc = "destroyed"
    /\ op.m_broker_reverse_socket = 1

(* C19: WaitSocketCallback on a pending broker handoff fails the operation *)
(* when the broker's finish step fails; when it succeeds the descriptor is *)
(* stored for the socket-open hook and no outcome is delivered.            *)
C19_WaitSocketFailure ==
    [][\A ok \in BOOLEAN :
          (DoWaitSocket({ok}) /\ op.m_broker # "null") =>
              IF ok
              THEN /\ op'.m_broker_reverse_socket = drv.next_fd
                   /\ resp' = resp /\ op'.m_done = op.m_done
              ELSE FailsOperation]_vars

\* the HTTP method the transport uses for a request on the handle h
RequestMethod(h) ==
    IF h.customrequest # "" THEN h.customrequest
    ELSE IF h.nobody = 1 THEN "HEAD" ELSE "GET"

(* C20: every request of a stat or open is a HEAD or a PROPFIND, never a   *)
(* GET: PROPFIND when the target is known to speak the extended protocol   *)
(* and HEAD otherwise, for the first request and after each redirect; the  *)
(* operation's m_is_propfind flag is true exactly when the method is       *)
(* PROPFIND.                                                               *)
C20_StatMethod ==
    (op.kind \in StatKinds /\ drv.pc \in {"headers", "body"}) =>
        /\ RequestMethod(curl) \in {"HEAD", "PROPFIND"}
        /\ op.m_is_propfind <=> (RequestMethod(curl) = "PROPFIND")

\* this step delivered a result, not a failure, to the handler
DeliversResult ==
    /\ Len(resp') = Len(resp) + 1
    /\ SubSeq(resp', 1, Len(resp)) = resp
    /\ resp'[Len(resp')].type # "fail"

(* C21: when Success on an open delivers a result, the file's properties   *)
(* are in place: LastURL is the effective URL, UseX509Auth is present      *)
(* exactly when client X509 auth is in use, BrokerURL is present exactly   *)
(* when a broker URL is set and holds it, and ContentLength is the text of *)
(* the size the result carries; ContentLength never holds a negative size. *)
C21_OpenProperties ==
    /\ [][(DoSuccess /\ op.kind = "open" /\ DeliversResult) =>
             /\ "LastURL" \in DOMAIN file' /\ file'["LastURL"] = curl.url
             /\ ("UseX509Auth" \in DOMAIN file') <=> op.m_x509_auth
             /\ op.m_x509_auth => file'["UseX509Auth"] = "true"
             /\ ("BrokerURL" \in DOMAIN file') <=> (op.m_broker_url # "")
             /\ op.m_broker_url # "" => file'["BrokerURL"] = op.m_broker_url
             /\ resp'[Len(resp')].size >= 0
             /\ "ContentLength" \in DOMAIN file'
             /\ file'["ContentLength"] = SizeToString(resp'[Len(resp')].size)]_vars
    /\ []("ContentLength" \in DOMAIN file =>
             file["ContentLength"] \in {SizeToString(n) : n \in {0, 1024, 4096}})

\* an open that succeeded at the target of a redirect which asked for
\* client X509 auth and named a broker
C21_Witness ==
    /\ op.kind = "open" /\ Len(resp) = 1 /\ resp[1].type = "stat"
    /\ resp[1].size = 1024
    /\ DOMAIN file = {"LastURL", "UseX509Auth", "BrokerURL", "ContentLength"}
    /\ file["LastURL"] = Url1 /\ file["BrokerURL"] = Broker1
    /\ file["ContentLength"] = "1024"

(* C22: a step records a mirror in the metadata cache exactly when it is   *)
(* a Success that delivers a result for an operation with a cache, whose   *)
(* target is not the origin and whose mirror hint is not empty; the entry  *)
(* is the URL and depth of the hint; the hint is the one the headers of    *)
(* the most recent redirect carried, empty if they carried none; an        *)
(* operation records at most one entry.                                    *)
C22_MirrorRecorded ==
    /\ [][dcache' =
             IF /\ DoSuccess /\ DeliversResult
                /\ op.m_dcache /\ ~op.m_is_origin /\ op.m_mirror_url # ""
             THEN Append(dcache, <<op.m_mirror_url, op.m_mirror_depth>>)
             ELSE dcache]_vars
    /\ [][(DoRedirect({TRUE}) /\ drv'.rv = 1) =>
             /\ op'.m_mirror_url = op.m_headers.mirror_url
             /\ op'.m_mirror_depth = op.m_headers.mirror_depth]_vars
    /\ [][(op'.m_mirror_url # op.m_mirror_url
            \/ op'.m_mirror_depth # op.m_mirror_depth) => DoRedirect({TRUE})]_vars
    /\ [](Len(dcache) <= 1)

\* a stat that delivered its result and recorded the mirror of its redirect
C22_Witness ==
    /\ op.kind = "stat" /\ op.m_dcache /\ ~op.m_is_origin
    /\ Len(resp) = 1 /\ resp[1].type = "stat"
    /\ dcache = << <<Mirror1, 1>> >> /\ curl.url = Url1

(* C23: when Redirect returns true, nothing of the redirect response's     *)
(* body is kept: a read's m_written is 0 and a stat's buffered PROPFIND    *)
(* text is empty, so the result reflects the final response's body only.   *)
C23_RedirectBodyDiscarded ==
    [][(DoRedirect({TRUE}) /\ drv'.rv = 1) =>
          /\ op'.m_written = 0
          /\ op'.m_response = <<>>]_vars

(* C24: every descriptor the broker's finish step gave the operation is    *)
(* still held by the operation, or went to the transport through the       *)
(* socket-open hook, or was closed by the operation; neither a Redirect    *)
(* nor a further WaitSocketCallback drops one.                             *)
C24_NoSocketDropped ==
    \A fd \in 0..(drv.next_fd - 1) :
        \/ op.m_broker_reverse_socket = fd
        \/ Count(drv.handed, fd) = 1
        \/ Count(drv.closed, fd) = 1

(* C25: the header timeout covers every request, also the one issued      *)
(* again after a redirect: a progress poll made after the deadline, while  *)
(* no header line of the current response has arrived, tells the transport *)
(* to abort and sets the header-timeout error.                             *)
C25_TimeoutEveryRequest ==
    [][(/\ DoXferInfo
        /\ drv.pc = "headers" /\ op.m_headers = HeaderParser
        /\ Later(now, Normalised(op.m_header_expiry))) =>
          /\ drv'.rv = 1 /\ drv'.pc = "aborted"
          /\ op'.m_error = "ErrHeaderTimeout"]_vars

(* C26: while a request is in flight, a non-empty broker URL comes with a  *)
(* broker request object and with the socket-open hook bound to the        *)
(* operation, also after a redirect without broker hint; StartBroker with  *)
(* an empty broker URL fails the operation and returns false.              *)
C26_BrokerSession ==
    /\ []((drv.pc \in {"headers", "body"} /\ op.m_broker_url # "") =>
             /\ op.m_broker # "null"
             /\ curl.opensocketfunction = "OpenSocketCallback"
             /\ curl.opensocketdata)
    /\ [][(DoStartBroker(BOOLEAN) /\ op.m_broker_url = "") =>
             (FailsOperation /\ drv'.rv = 0)]_vars

====
